---- MODULE Spec2Model ----
(***************************************************************************)
(* Kotlin bindings generator (src/bindings/kotlin/gen_kotlin.rs).          *)
(*                                                                         *)
(* Two state machines are described here.                                  *)
(*   SpecGen : the rendering pass of the KotlinWrapper template over an    *)
(*             interface, using the filters of `mod filters`.              *)
(*   Spec    : one call of a generated function wrapper at run time:       *)
(*             lower every argument, make the foreign call, lift the       *)
(*             result, with the helper code of the template (RustBuffer,   *)
(*             serializeForRust, deserializeFromRust, fromOrdinal).        *)
(***************************************************************************)
EXTENDS Integers, Sequences, FiniteSets, TLC

(***************************************************************************)
(* TypeReference.  A type is a flat sequence of tags: Optional(t) puts     *)
(* "Optional" in front of t, Record/Enum/Object carry their name.          *)
(***************************************************************************)
Boolean == <<"Boolean">>
U32 == <<"U32">>
U64 == <<"U64">>
Float == <<"Float">>
Double == <<"Double">>
String == <<"String">>
Bytes == <<"Bytes">>
Enum(name) == <<"Enum", name>>
Record(name) == <<"Record", name>>
Object(name) == <<"Object", name>>
Optional(t) == <<"Optional">> \o t

Kind(t) == t[1]
TypeName(t) == t[2]
Inner(t) == Tail(t)

(***************************************************************************)
(* The interface the wrappers are generated from: one enum and two         *)
(* records.  Point is the record [x: U32, y: Optional(Boolean)].           *)
(***************************************************************************)
EnumValues(name) ==
    CASE name = "E" -> <<"A", "B", "C">>

RecordFields(name) ==
    CASE name = "Point" -> << <<"x", U32>>, <<"y", Optional(Boolean)>> >>
      [] name = "Reading" -> << <<"f", Float>>, <<"d", Double>>, <<"o", Optional(U32)>> >>

FieldType(name, i) == RecordFields(name)[i][2]
NumFields(name) == Len(RecordFields(name))

(***************************************************************************)
(* Kotlin values.  decl_kt declares Optional(t) as `T?`, so a value of an  *)
(* Optional type is null or a value of the inner type; U32 is a Kotlin Int *)
(* (32 bits, signed); a Float is held as its 32 raw bits and a Double as   *)
(* the two 32-bit halves of its 64 raw bits.                               *)
(***************************************************************************)
Null == <<"null">>
IntV(n) == <<"Int", n>>
BoolV(b) == <<"Boolean", b>>
FloatV(bits) == <<"Float", bits>>
DoubleV(hi, lo) == <<"Double", hi, lo>>
EnumV(name, value) == <<"Enum", name, value>>
RecV(name, fields) == <<"Record", name, fields>>

\* -1 is the Int that holds the U32 4294967295
U32Samples == {7, 42, -1}
FloatSamples == {1065353216}
DoubleSamples == {<<1072693248, 0>>}

RECURSIVE ValuesOf(_)
RECURSIVE FieldTuples(_, _)
\* the sequences of values of the first k fields of record `name`
FieldTuples(name, k) ==
    IF k = 0 THEN {<<>>}
    ELSE {Append(fs, v) : fs \in FieldTuples(name, k - 1),
                          v \in ValuesOf(FieldType(name, k))}

ValuesOf(t) ==
    CASE Kind(t) = "Boolean" -> {BoolV(TRUE), BoolV(FALSE)}
      [] Kind(t) = "U32" -> {IntV(n) : n \in U32Samples}
      [] Kind(t) = "Float" -> {FloatV(b) : b \in FloatSamples}
      [] Kind(t) = "Double" -> {DoubleV(d[1], d[2]) : d \in DoubleSamples}
      [] Kind(t) = "Enum" ->
            {EnumV(TypeName(t), EnumValues(TypeName(t))[i]) :
                i \in 1..Len(EnumValues(TypeName(t)))}
      [] Kind(t) = "Record" ->
            {RecV(TypeName(t), fs) : fs \in FieldTuples(TypeName(t), NumFields(TypeName(t)))}
      [] Kind(t) = "Optional" -> {Null} \cup ValuesOf(Inner(t))

(***************************************************************************)
(* java.nio.ByteBuffer over the memory of a RustBuffer, big endian.        *)
(* bytes is the memory (its length is the limit), pos the position, exc    *)
(* the exception being thrown ("none" while none is): an operation on a    *)
(* buffer whose exc is set is skipped, as the code after a throw is.       *)
(***************************************************************************)
NoExc == "none"

Wrap(bytes) == [bytes |-> bytes, pos |-> 0, exc |-> NoExc]
Raise(bb, e) == [bb EXCEPT !.exc = e]
hasRemaining(bb) == bb.pos < Len(bb.bytes)

BigEndian32(n) ==
    << (n \div 16777216) % 256, (n \div 65536) % 256, (n \div 256) % 256, n % 256 >>

FromBigEndian32(b) ==
    (IF b[1] >= 128 THEN b[1] - 256 ELSE b[1]) * 16777216
        + b[2] * 65536 + b[3] * 256 + b[4]

putBytes(bb, bs) ==
    IF bb.exc # NoExc THEN bb
    ELSE IF bb.pos + Len(bs) > Len(bb.bytes) THEN Raise(bb, "BufferOverflowException")
    ELSE [bb EXCEPT
            !.bytes = [i \in 1..Len(bb.bytes) |->
                         IF i > bb.pos /\ i <= bb.pos + Len(bs)
                         THEN bs[i - bb.pos] ELSE bb.bytes[i]],
            !.pos = bb.pos + Len(bs)]

put(bb, b) == putBytes(bb, <<b>>)
putIntLittleEndian(bb, n) ==
    putBytes(bb, << n % 256, (n \div 256) % 256, (n \div 65536) % 256, (n \div 16777216) % 256 >>)
putInt(bb, n) == putBytes(bb, BigEndian32(n))
putFloat(bb, bits) == putBytes(bb, BigEndian32(bits))
putDouble(bb, hi, lo) == putBytes(bb, BigEndian32(hi) \o BigEndian32(lo))

\* a read gives the buffer after it and the value read
Read(bb, v) == [bb |-> bb, v |-> v]

getBytes(bb, n) ==
    IF bb.exc # NoExc THEN Read(bb, <<>>)
    ELSE IF bb.pos + n > Len(bb.bytes)
    THEN Read(Raise(bb, "BufferUnderflowException"), <<>>)
    ELSE Read([bb EXCEPT !.pos = bb.pos + n], SubSeq(bb.bytes, bb.pos + 1, bb.pos + n))

(***************************************************************************)
(* The deserializeItemFromRust helpers of the primitive types.             *)
(***************************************************************************)
Boolean_deserializeItemFromRust(bb) ==
    LET r == getBytes(bb, 1)
    IN IF r.bb.exc # NoExc THEN Read(r.bb, Null) ELSE Read(r.bb, BoolV(r.v[1] # 0))

Int_deserializeItemFromRust(bb) ==
    LET r == getBytes(bb, 4)
    IN IF r.bb.exc # NoExc THEN Read(r.bb, Null) ELSE Read(r.bb, IntV(FromBigEndian32(r.v)))

Float_deserializeItemFromRust(bb) ==
    LET r == getBytes(bb, 4)
    IN IF r.bb.exc # NoExc THEN Read(r.bb, Null) ELSE Read(r.bb, FloatV(FromBigEndian32(r.v)))

Double_deserializeItemFromRust(bb) ==
    LET r == getBytes(bb, 8)
    IN IF r.bb.exc # NoExc THEN Read(r.bb, Null)
       ELSE Read(r.bb, DoubleV(FromBigEndian32(SubSeq(r.v, 1, 4)),
                               FromBigEndian32(SubSeq(r.v, 5, 8))))

(***************************************************************************)
(* The serializeForRustSize / serializeForRustInto helpers.  A size is     *)
(* Ret(n), or Throw(e) when the call does not return a number.             *)
(***************************************************************************)
Ret(n) == [exc |-> NoExc, v |-> n]
Throw(e) == [exc |-> e, v |-> 0]

Int_serializeForRustSize == Ret(4)
Float_serializeForRustSize == Ret(4)
Double_serializeForRustSize == Ret(8)

\* fun<T> T?.serializeForRustSize().  Kotlin resolves extension functions by
\* the static type of the receiver: inside the generic function the receiver
\* `this` has type T, for which no other overload applies, so the call
\* `this.serializeForRustSize()` of the non-null branch is a call of this same
\* function with the same receiver.  It never returns; the JVM ends the
\* recursion with a StackOverflowError.
Nullable_serializeForRustSize(v) ==
    IF v = Null THEN Ret(1) ELSE Throw("StackOverflowError")

\* fun<T> T?.serializeForRustInto(buf): the same self call, each level of which
\* first puts a 1; it ends when the buffer is full.
RECURSIVE Nullable_serializeForRustInto(_, _)
Nullable_serializeForRustInto(v, bb) ==
    IF bb.exc # NoExc THEN bb
    ELSE IF v = Null THEN put(bb, 0)
    ELSE Nullable_serializeForRustInto(v, put(bb, 1))

RECURSIVE serializeForRustSize(_, _)
RECURSIVE Record_serializeForRustSizeUpTo(_, _, _)
\* 0 + this.f1.serializeForRustSize() + ... for the first k fields
Record_serializeForRustSizeUpTo(name, v, k) ==
    IF k = 0 THEN Ret(0)
    ELSE LET p == Record_serializeForRustSizeUpTo(name, v, k - 1)
             s == serializeForRustSize(FieldType(name, k), v[3][k])
         IN IF p.exc # NoExc THEN p
            ELSE IF s.exc # NoExc THEN s
            ELSE Ret(p.v + s.v)

Record_serializeForRustSize(name, v) ==
    Record_serializeForRustSizeUpTo(name, v, NumFields(name))

\* x.serializeForRustSize() for x of the declared type t: the overload the
\* Kotlin compiler picks for the declared type
serializeForRustSize(t, v) ==
    CASE Kind(t) = "U32" -> Int_serializeForRustSize
      [] Kind(t) = "Float" -> Float_serializeForRustSize
      [] Kind(t) = "Double" -> Double_serializeForRustSize
      [] Kind(t) = "Record" -> Record_serializeForRustSize(TypeName(t), v)
      [] OTHER -> Nullable_serializeForRustSize(v)

RECURSIVE serializeForRustInto(_, _, _)
RECURSIVE Record_serializeForRustIntoUpTo(_, _, _, _)
Record_serializeForRustIntoUpTo(name, v, bb, k) ==
    IF k = 0 THEN bb
    ELSE serializeForRustInto(FieldType(name, k), v[3][k],
                              Record_serializeForRustIntoUpTo(name, v, bb, k - 1))

Record_serializeForRustInto(name, v, bb) ==
    Record_serializeForRustIntoUpTo(name, v, bb, NumFields(name))

serializeForRustInto(t, v, bb) ==
    IF bb.exc # NoExc THEN bb
    ELSE CASE Kind(t) = "U32" -> putInt(bb, v[2])
           [] Kind(t) = "Float" -> putFloat(bb, v[2])
           [] Kind(t) = "Double" -> putDouble(bb, v[2], v[3])
           [] Kind(t) = "Record" -> Record_serializeForRustInto(TypeName(t), v, bb)
           [] OTHER -> Nullable_serializeForRustInto(v, bb)

(***************************************************************************)
(* mod filters.  A filter gives Ok(text), text being the pieces that       *)
(* format! joins, or panics with its message.                              *)
(***************************************************************************)
Ok(text) == [ok |-> TRUE, text |-> text]
Panic(before, t, after) == [ok |-> FALSE, text |-> <<before>> \o t \o <<after>>]

decl_c_argument(t) ==
    CASE Kind(t) = "Boolean" -> Ok(<<"Byte">>)
      [] Kind(t) = "U32" -> Ok(<<"Int">>)
      [] Kind(t) = "U64" -> Ok(<<"Long">>)
      [] Kind(t) = "Float" -> Ok(<<"Float">>)
      [] Kind(t) = "Double" -> Ok(<<"Double">>)
      [] Kind(t) = "String" -> Ok(<<"String">>)
      [] Kind(t) = "Bytes" -> Ok(<<"RustBuffer.ByValue">>)
      [] Kind(t) = "Enum" -> Ok(<<"Int">>)
      [] Kind(t) = "Record" -> Ok(<<"RustBuffer.ByValue">>)
      [] Kind(t) = "Optional" -> Ok(<<"RustBuffer.ByValue">>)
      [] OTHER -> Panic("[TODO: decl_c_argument(", t, ")]")

decl_c_return(t) ==
    CASE Kind(t) = "String" -> Ok(<<"String">>)
      [] OTHER -> decl_c_argument(t)

RECURSIVE decl_kt(_)
decl_kt(t) ==
    CASE Kind(t) = "Boolean" -> Ok(<<"Boolean">>)
      [] Kind(t) = "Enum" -> Ok(<<TypeName(t)>>)
      [] Kind(t) = "Record" -> Ok(<<TypeName(t)>>)
      [] Kind(t) = "Optional" ->
            LET inner == decl_kt(Inner(t))
            IN IF inner.ok THEN Ok(inner.text \o <<"?">>) ELSE inner
      [] OTHER -> decl_c_argument(t)

lower_kt(nm, t) ==
    CASE Kind(t) = "Boolean" -> Ok(<<"(if (", nm, ") { 1 } else { 0 })">>)
      [] Kind(t) \in {"U32", "U64", "Float", "Double", "String", "Bytes"} -> Ok(<<nm>>)
      [] Kind(t) = "Enum" -> Ok(<<nm, ".ordinal">>)
      [] Kind(t) = "Record" -> Ok(<<nm, ".serializeForRust()">>)
      [] Kind(t) = "Optional" -> Ok(<<nm, ".serializeForRust()">>)
      [] OTHER -> Panic("[TODO: LOWER_KT ", t, "]")

RECURSIVE deserialize_item_kt(_, _)
deserialize_item_kt(nm, t) ==
    IF Kind(t) = "Optional"
    THEN LET inner == deserialize_item_kt(nm, Inner(t))
         IN IF inner.ok
            THEN Ok(<<"(if (Boolean.deserializeItemFromRust(", nm, ")) { ">>
                        \o inner.text \o <<" } else { null })">>)
            ELSE inner
    ELSE LET kt == decl_kt(t)
         IN IF kt.ok THEN Ok(kt.text \o <<".deserializeItemFromRust(", nm, ")">>) ELSE kt

lift_kt(nm, t) ==
    CASE Kind(t) = "Boolean" -> Ok(<<"(", nm, " != 0)">>)
      [] Kind(t) \in {"U32", "U64", "Float", "Double", "String"} -> Ok(<<nm>>)
      [] Kind(t) = "Enum" -> Ok(<<TypeName(t), ".fromOrdinal(", nm, ")">>)
      [] Kind(t) \in {"Record", "Optional"} ->
            LET item == deserialize_item_kt("buf", t)
            IN IF item.ok
               THEN Ok(<<"deserializeFromRust(", nm, ") { buf -> ">> \o item.text \o <<" }">>)
               ELSE item
      [] OTHER -> Panic("[TODO: LIFT_KT ", t, "]")

(***************************************************************************)
(* What the emitted expressions compute.                                   *)
(***************************************************************************)
\* Kotlin's Enum.ordinal: the zero-based position of the constant in the enum
\* class, whose constants are emitted in the order of e.values()
KotlinOrdinal(name, value) ==
    (CHOOSE i \in 1..Len(EnumValues(name)) : EnumValues(name)[i] = value) - 1

\* when (n) { {{ loop.index }} -> value ...; else -> throw }: loop.index counts from one
fromOrdinal(name, n) ==
    IF n \in 1..Len(EnumValues(name))
    THEN Ret(EnumV(name, EnumValues(name)[n]))
    ELSE Throw("RuntimeException: invalid enum value")

\* the expression deserialize_item_kt("buf", t) run on a buffer; the companion
\* deserializeItemFromRust of a record evaluates its constructor arguments in
\* the order of rec.fields()
RECURSIVE deserializeItem(_, _)
RECURSIVE Record_deserializeFieldsUpTo(_, _, _)
Record_deserializeFieldsUpTo(name, bb, k) ==
    IF k = 0 THEN Read(bb, <<>>)
    ELSE LET p == Record_deserializeFieldsUpTo(name, bb, k - 1)
             r == deserializeItem(FieldType(name, k), p.bb)
         IN IF p.bb.exc # NoExc THEN p ELSE Read(r.bb, Append(p.v, r.v))

Record_deserializeItemFromRust(name, bb) ==
    LET r == Record_deserializeFieldsUpTo(name, bb, NumFields(name))
    IN IF r.bb.exc # NoExc THEN Read(r.bb, Null) ELSE Read(r.bb, RecV(name, r.v))

deserializeItem(t, bb) ==
    IF Kind(t) = "Optional"
    THEN LET p == Boolean_deserializeItemFromRust(bb)
         IN IF p.bb.exc # NoExc THEN p
            ELSE IF p.v = BoolV(TRUE) THEN deserializeItem(Inner(t), p.bb)
            ELSE Read(p.bb, Null)
    ELSE CASE Kind(t) = "Boolean" -> Boolean_deserializeItemFromRust(bb)
           [] Kind(t) = "U32" -> Int_deserializeItemFromRust(bb)
           [] Kind(t) = "Float" -> Float_deserializeItemFromRust(bb)
           [] Kind(t) = "Double" -> Double_deserializeItemFromRust(bb)
           [] Kind(t) = "Record" -> Record_deserializeItemFromRust(TypeName(t), bb)

(***************************************************************************)
(* RustBuffer and the native entry points.  A buffer records how often the *)
(* native free was called on it, whether serializeForRust returned it and  *)
(* whether it was passed to the foreign call.                              *)
(***************************************************************************)
RustBuffer(len, data, bytes) ==
    [len |-> len, data |-> data, bytes |-> bytes,
     frees |-> 0, returned |-> FALSE, handed |-> FALSE]

\* fun asByteBuffer(): ByteBuffer?  -- <<>> stands for null
asByteBuffer(rbuf) ==
    IF rbuf.data = "null" THEN <<>> ELSE <<Wrap(SubSeq(rbuf.bytes, 1, rbuf.len))>>

\* the native allocation: `native` is what the native side answers
ffi_bytebuffer_alloc(size, native) ==
    RustBuffer(native.len, native.data,
               IF native.data = "null" THEN <<>> ELSE [i \in 1..native.len |-> native.fill])

\* the native free, called on rbuf
ffi_bytebuffer_free(rbuf) == [rbuf EXCEPT !.frees = @ + 1]

FreeFailure == "FreeFailure"

\* what a call of serializeForRust leaves: the exception that leaves it (exc),
\* the one first raised (orig), the one the native free raised (cleanup), the
\* buffer it allocated (buf, empty when none was), the size it asked for and the
\* number of bytes serializeForRustInto wrote
SerOutcome(exc, orig, cleanup, buf, size, written) ==
    [exc |-> exc, orig |-> orig, cleanup |-> cleanup, buf |-> buf,
     size |-> size, written |-> written]

\* the try / catch of both serializeForRust bodies, given the buffer the
\* allocation returned and the byte buffer after serializeForRustInto
TryCatchNoFree(size, buf, bb, freeFails) ==
    IF bb.exc = NoExc
    THEN SerOutcome(NoExc, NoExc, NoExc,
                    <<[buf EXCEPT !.bytes = bb.bytes, !.returned = TRUE]>>, size, bb.pos)
    ELSE SerOutcome(bb.exc, bb.exc, NoExc, <<buf>>, size, bb.pos)

TryCatch(size, buf, bb, freeFails) ==
    IF bb.exc = NoExc
    THEN SerOutcome(NoExc, NoExc, NoExc,
                    <<[buf EXCEPT !.bytes = bb.bytes, !.returned = TRUE]>>, size, bb.pos)
    ELSE SerOutcome(IF freeFails THEN FreeFailure ELSE bb.exc, bb.exc,
                    IF freeFails THEN FreeFailure ELSE NoExc,
                    <<ffi_bytebuffer_free(buf)>>, size, bb.pos)

\* buf.asByteBuffer()!! followed by the write `into`
NotNull(view) == IF view = <<>> THEN Raise(Wrap(<<>>), "NullPointerException") ELSE view[1]

\* internal fun serializeForRust() of a record class
Record_serializeForRust(name, v, native, freeFails) ==
    LET size == Record_serializeForRustSize(name, v)
    IN IF size.exc # NoExc
       THEN SerOutcome(size.exc, size.exc, NoExc, <<>>, size, 0)
       ELSE LET buf == ffi_bytebuffer_alloc(size.v, native)
                bb == Record_serializeForRustInto(name, v, NotNull(asByteBuffer(buf)))
            IN TryCatch(size, buf, bb, freeFails)

\* internal fun Any?.serializeForRust(): the receiver is an Any?, for which
\* the generic T? overloads are the ones that apply
Any_serializeForRust(v, native, freeFails) ==
    LET size == Nullable_serializeForRustSize(v)
    IN IF size.exc # NoExc
       THEN SerOutcome(size.exc, size.exc, NoExc, <<>>, size, 0)
       ELSE LET buf == ffi_bytebuffer_alloc(size.v, native)
                bb == Nullable_serializeForRustInto(v, NotNull(asByteBuffer(buf)))
            IN TryCatch(size, buf, bb, freeFails)

\* nm.serializeForRust() for nm of the declared type t: a record's member
\* function, and the Any? extension for a nullable receiver
serializeForRust(t, v, native, freeFails) ==
    IF Kind(t) = "Record"
    THEN Record_serializeForRust(TypeName(t), v, native, freeFails)
    ELSE Any_serializeForRust(v, native, freeFails)

\* what a call of deserializeFromRust leaves
DeOutcome(exc, orig, cleanup, buf, item) ==
    [exc |-> exc, orig |-> orig, cleanup |-> cleanup, buf |-> buf, item |-> item]

\* fun<T> deserializeFromRust(rbuf, deserializeItemFromRust), the item reader
\* being the expression lift_kt emits for type t
deserializeFromRust(rbuf, t, freeFails) ==
    LET view == asByteBuffer(rbuf)
    IN IF view = <<>>
       THEN DeOutcome("NullPointerException", "NullPointerException", NoExc, rbuf, Null)
       ELSE LET r == deserializeItem(t, view[1])
                e == IF r.bb.exc # NoExc THEN r.bb.exc
                     ELSE IF hasRemaining(r.bb) THEN "RuntimeException: junk remaining"
                     ELSE NoExc
                freed == ffi_bytebuffer_free(rbuf)
            IN IF freeFails
               THEN DeOutcome(FreeFailure, e, FreeFailure, freed, Null)
               ELSE DeOutcome(e, e, NoExc, freed, IF e = NoExc THEN r.v ELSE Null)

(***************************************************************************)
(* A call of a generated function wrapper (the `Some` branch of the        *)
(* function template):                                                     *)
(*     val _retval = _UniFFILib.INSTANCE.f(lower(arg1), ..., lower(argn))  *)
(*     return lift(_retval)                                                *)
(* Kotlin evaluates the arguments of the foreign call from left to right.  *)
(***************************************************************************)
VARIABLES
    func,      \* the function definition: [args: its argument types, ret: its return type]
    argv,      \* the values the wrapper is called with
    pc,        \* "lower", "call", "lift", "done" (returned) or "thrown"
    lowered,   \* the lowered arguments evaluated so far
    heap,      \* every RustBuffer of the call, by number
    exc,       \* the exception that left the wrapper
    orig,      \* the exception first raised in the failing helper
    cleanup,   \* the exception the native free raised
    ser,       \* what the last serializeForRust computed
    retval,    \* _retval
    result,    \* the value the wrapper returned
    echoed,    \* the native function returned its first argument
    model,     \* the function definitions of the interface being rendered
    genpc,     \* "ffi", "functions", "done" or "panicked"
    idx,       \* how many items of the current template loop are rendered
    out,       \* the text rendered so far, item by item
    diag       \* the panic message

runVars == <<func, argv, pc, lowered, heap, exc, orig, cleanup, ser, retval, result, echoed>>
genVars == <<model, genpc, idx, out, diag>>
vars == <<func, argv, pc, lowered, heap, exc, orig, cleanup, ser, retval, result, echoed,
          model, genpc, idx, out, diag>>

MaxArgs == 2

RunTypes ==
    {U32, Enum("E"), Record("Point"), Record("Reading"), Optional(U32), Optional(Optional(U32))}

NoResult == <<>>
BufRef(id) == <<"RustBuffer", id>>
Range(seq) == {seq[i] : i \in 1..Len(seq)}

\* the template renders the wrapper of f: no filter panics
Renders(f) ==
    /\ \A i \in 1..Len(f.args) :
          /\ decl_c_argument(f.args[i]).ok
          /\ decl_kt(f.args[i]).ok
          /\ lower_kt("arg", f.args[i]).ok
    /\ decl_c_return(f.ret).ok
    /\ decl_kt(f.ret).ok
    /\ lift_kt("_retval", f.ret).ok

\* which expression lower_kt emitted for an argument of type t
LowerForm(t) ==
    LET x == lower_kt("arg", t).text
    IN CASE Len(x) = 1 -> "identity"
         [] x[1] = "(if (" -> "boolean"
         [] x[2] = ".ordinal" -> "ordinal"
         [] x[2] = ".serializeForRust()" -> "serializeForRust"

\* which expression lift_kt emitted for a result of type t
LiftForm(t) ==
    LET x == lift_kt("_retval", t).text
    IN CASE Len(x) = 1 -> "identity"
         [] x[1] = "(" -> "boolean"
         [] x[1] = "deserializeFromRust(" -> "deserializeFromRust"
         [] x[2] = ".fromOrdinal(" -> "fromOrdinal"

\* an argument: its declared type and its value
TypedValues == UNION {{<<t, v>> : v \in ValuesOf(t)} : t \in RunTypes}

\* the calls considered, of n arguments, the function returning the type of
\* its first argument
Calls(n) == [1..n -> TypedValues]

FunctionOf(call) == [args |-> [i \in 1..Len(call) |-> call[i][1]], ret |-> call[1][1]]

GenIdle ==
    /\ model = <<>>
    /\ genpc = "idle"
    /\ idx = 0
    /\ out = <<>>
    /\ diag = <<>>

Init ==
    /\ \E n \in 1..MaxArgs : \E call \in Calls(n) :
          /\ Renders(FunctionOf(call))
          /\ func = FunctionOf(call)
          /\ argv = [i \in 1..Len(call) |-> call[i][2]]
    /\ pc = "lower"
    /\ lowered = <<>>
    /\ heap = <<>>
    /\ exc = NoExc
    /\ orig = NoExc
    /\ cleanup = NoExc
    /\ ser = <<>>
    /\ retval = NoResult
    /\ result = NoResult
    /\ echoed = FALSE
    /\ GenIdle

\* what the native allocation may answer to a request of `size` bytes: a buffer
\* of that length, a shorter one, or one without memory
AllocFills == {0, 255}
NativeAllocs(size) ==
    IF size.exc # NoExc THEN {[len |-> 0, data |-> "null", fill |-> 0]}
    ELSE {[len |-> l, data |-> "ptr", fill |-> f] :
              l \in {size.v} \cup {k \in {0, 4} : k < size.v}, f \in AllocFills}
         \cup {[len |-> size.v, data |-> "null", fill |-> 0]}

SizeFor(t, v) ==
    IF Kind(t) = "Record" THEN Record_serializeForRustSize(TypeName(t), v)
    ELSE Nullable_serializeForRustSize(v)

\* {{ arg.name()|lower_kt(arg.type_()) }} of the next argument
LowerArg ==
    /\ pc = "lower"
    /\ LET i == Len(lowered) + 1
           t == func.args[i]
           v == argv[i]
           next == IF i = Len(func.args) THEN "call" ELSE "lower"
       IN CASE LowerForm(t) = "serializeForRust" ->
                  \E native \in NativeAllocs(SizeFor(t, v)), freeFails \in BOOLEAN :
                      LET o == serializeForRust(t, v, native, freeFails)
                      IN /\ heap' = heap \o o.buf
                         /\ ser' = <<[arg |-> i, size |-> o.size, written |-> o.written,
                                      exc |-> o.orig]>>
                         /\ IF o.exc = NoExc
                            THEN /\ lowered' = Append(lowered, BufRef(Len(heap) + 1))
                                 /\ pc' = next
                                 /\ UNCHANGED <<exc, orig, cleanup>>
                            ELSE /\ pc' = "thrown"
                                 /\ exc' = o.exc
                                 /\ orig' = o.orig
                                 /\ cleanup' = o.cleanup
                                 /\ UNCHANGED lowered
            [] LowerForm(t) = "ordinal" ->
                  /\ lowered' = Append(lowered, IntV(KotlinOrdinal(TypeName(t), v[3])))
                  /\ pc' = next
                  /\ UNCHANGED <<heap, ser, exc, orig, cleanup>>
            [] LowerForm(t) = "boolean" ->
                  /\ lowered' = Append(lowered, IntV(IF v[2] THEN 1 ELSE 0))
                  /\ pc' = next
                  /\ UNCHANGED <<heap, ser, exc, orig, cleanup>>
            [] LowerForm(t) = "identity" ->
                  /\ lowered' = Append(lowered, v)
                  /\ pc' = next
                  /\ UNCHANGED <<heap, ser, exc, orig, cleanup>>
    /\ UNCHANGED <<func, argv, retval, result, echoed>>
    /\ UNCHANGED genVars

\* buffers the native function may return, beside its first argument
NativeSamples ==
    { <<0>>, <<1, 0>>, <<1, 1, 0, 0, 0, 7>>, <<1, 0, 0, 0, 7>>,
      <<0, 0, 0, 42, 0>>, <<0, 0, 0, 42, 1, 1>>, <<0, 0, 0, 42, 0, 9>>, <<0, 0, 0, 42>>,
      <<63, 128, 0, 0, 63, 240, 0, 0, 0, 0, 0, 0, 1, 0, 0, 0, 7>> }

NativeReturns ==
    IF LiftForm(func.ret) = "deserializeFromRust"
    THEN {[v |-> RustBuffer(Len(b), "ptr", b), echo |-> FALSE] : b \in NativeSamples}
         \cup {[v |-> RustBuffer(0, "null", <<>>), echo |-> FALSE]}
         \cup {[v |-> RustBuffer(heap[lowered[1][2]].len, "ptr", heap[lowered[1][2]].bytes),
                echo |-> TRUE]}
    ELSE {[v |-> IntV(n), echo |-> FALSE] :
              n \in IF Kind(func.ret) = "Enum"
                    THEN 0..(Len(EnumValues(TypeName(func.ret))) + 1)
                    ELSE U32Samples}
         \cup {[v |-> lowered[1], echo |-> TRUE]}

\* _UniFFILib.INSTANCE.f(...): the lowered buffers pass to the native side, which
\* returns a value of the declared return type
ForeignCall ==
    /\ pc = "call"
    /\ \E r \in NativeReturns :
          LET passed == [j \in 1..Len(heap) |->
                            IF BufRef(j) \in Range(lowered)
                            THEN [heap[j] EXCEPT !.handed = TRUE] ELSE heap[j]]
          IN /\ IF LiftForm(func.ret) = "deserializeFromRust"
                THEN /\ heap' = Append(passed, r.v)
                     /\ retval' = BufRef(Len(heap) + 1)
                ELSE /\ heap' = passed
                     /\ retval' = r.v
             /\ echoed' = r.echo
    /\ pc' = "lift"
    /\ UNCHANGED <<func, argv, lowered, exc, orig, cleanup, ser, result>>
    /\ UNCHANGED genVars

\* return {{ "_retval"|lift_kt(return_type) }}
LiftReturn ==
    /\ pc = "lift"
    /\ CASE LiftForm(func.ret) = "deserializeFromRust" ->
               \E freeFails \in BOOLEAN :
                   LET o == deserializeFromRust(heap[retval[2]], func.ret, freeFails)
                   IN /\ heap' = [heap EXCEPT ![retval[2]] = o.buf]
                      /\ exc' = o.exc
                      /\ orig' = o.orig
                      /\ cleanup' = o.cleanup
                      /\ result' = IF o.exc = NoExc THEN o.item ELSE NoResult
                      /\ pc' = IF o.exc = NoExc THEN "done" ELSE "thrown"
         [] LiftForm(func.ret) = "fromOrdinal" ->
               LET r == fromOrdinal(TypeName(func.ret), retval[2])
               IN /\ exc' = r.exc
                  /\ orig' = r.exc
                  /\ result' = IF r.exc = NoExc THEN r.v ELSE NoResult
                  /\ pc' = IF r.exc = NoExc THEN "done" ELSE "thrown"
                  /\ UNCHANGED <<heap, cleanup>>
         [] LiftForm(func.ret) = "boolean" ->
               /\ result' = BoolV(retval[2] # 0)
               /\ pc' = "done"
               /\ UNCHANGED <<heap, exc, orig, cleanup>>
         [] LiftForm(func.ret) = "identity" ->
               /\ result' = retval
               /\ pc' = "done"
               /\ UNCHANGED <<heap, exc, orig, cleanup>>
    /\ UNCHANGED <<func, argv, lowered, ser, retval, echoed>>
    /\ UNCHANGED genVars

Next == LowerArg \/ ForeignCall \/ LiftReturn

Spec == Init /\ [][Next]_vars

(***************************************************************************)
(* The rendering pass: KotlinWrapper's template walks the interface in the *)
(* order of its text: the foreign function declarations, the enums, the    *)
(* records, the function wrappers.  A filter that panics unwinds out of    *)
(* render(): the text built so far is dropped with the String it was       *)
(* written to, and the panic message is all that is left.                  *)
(***************************************************************************)
MaxItems == 2

NoReturn == <<"None">>
EnumNames == <<"E">>
RecordNames == <<"Point", "Reading">>
FuncNames == <<"f1", "f2", "f3", "f4">>
ArgNames == <<"a", "b", "c", "d">>

GenArgTypes == {U32, Record("Point"), Optional(U32), Bytes, Object("Obj")}
GenRetTypes == {NoReturn, Enum("E"), Record("Point"), Bytes, Object("Obj")}

FunctionDefinitions ==
    {[args |-> a, ret |-> r] :
        a \in {<<>>} \cup {<<t>> : t \in GenArgTypes}, r \in GenRetTypes}

\* the function at place i of the interface is named FuncNames[i]
Named(m) == [i \in 1..Len(m) |-> [name |-> FuncNames[i], args |-> m[i].args, ret |-> m[i].ret]]

\* the filter calls of one foreign function declaration, in template order
FfiParts(f) ==
    [i \in 1..Len(f.args) |-> decl_c_argument(f.args[i])]
        \o (IF f.ret = NoReturn THEN <<>> ELSE <<decl_c_return(f.ret)>>)

\* the filter calls of one record class, in template order
RecordParts(name) ==
    [i \in 1..NumFields(name) |-> decl_kt(FieldType(name, i))]
        \o [i \in 1..NumFields(name) |-> deserialize_item_kt("buf", FieldType(name, i))]

\* the filter calls of one function wrapper, in template order
FunctionParts(f) ==
    [i \in 1..Len(f.args) |-> decl_kt(f.args[i])]
        \o (IF f.ret = NoReturn THEN <<>> ELSE <<decl_kt(f.ret)>>)
        \o [i \in 1..Len(f.args) |-> lower_kt(ArgNames[i], f.args[i])]
        \o (IF f.ret = NoReturn THEN <<>> ELSE <<lift_kt("_retval", f.ret)>>)

Panics(parts) == \E k \in 1..Len(parts) : ~parts[k].ok
FirstPanic(parts) ==
    parts[CHOOSE k \in 1..Len(parts) :
             /\ ~parts[k].ok
             /\ \A j \in 1..(k - 1) : parts[j].ok].text

Item(kind, name, parts) ==
    [kind |-> kind, name |-> name, text |-> [k \in 1..Len(parts) |-> parts[k].text]]

\* render one item of a template loop: its text is appended, or the panic
\* ends the pass
Emit(kind, name, parts, last, nextpc) ==
    IF Panics(parts)
    THEN /\ genpc' = "panicked"
         /\ diag' = FirstPanic(parts)
         /\ out' = <<>>
         /\ idx' = idx
    ELSE /\ out' = Append(out, Item(kind, name, parts))
         /\ IF idx + 1 = last
            THEN genpc' = nextpc /\ idx' = 0
            ELSE genpc' = genpc /\ idx' = idx + 1
         /\ diag' = diag

RunIdle ==
    /\ func = [args |-> <<>>, ret |-> NoReturn]
    /\ argv = <<>>
    /\ pc = "idle"
    /\ lowered = <<>>
    /\ heap = <<>>
    /\ exc = NoExc
    /\ orig = NoExc
    /\ cleanup = NoExc
    /\ ser = <<>>
    /\ retval = NoResult
    /\ result = NoResult
    /\ echoed = FALSE

InitGen ==
    /\ \E n \in 1..MaxItems : \E m \in [1..n -> FunctionDefinitions] : model = Named(m)
    /\ genpc = "ffi"
    /\ idx = 0
    /\ out = <<>>
    /\ diag = <<>>
    /\ RunIdle

\* {% for func in ci.iter_ffi_function_definitions() %}
RenderFfiFunction ==
    /\ genpc = "ffi"
    /\ Emit("ffi", model[idx + 1].name, FfiParts(model[idx + 1]), Len(model), "enums")
    /\ UNCHANGED model
    /\ UNCHANGED runVars

\* {% for e in ci.iter_enum_definitions() %}: value n of the enum is the
\* branch `n -> value` of fromOrdinal, n being loop.index
RenderEnum ==
    /\ genpc = "enums"
    /\ LET name == EnumNames[idx + 1]
       IN Emit("enum", name,
               [n \in 1..Len(EnumValues(name)) |-> Ok(<<n, " -> ", EnumValues(name)[n]>>)],
               Len(EnumNames), "records")
    /\ UNCHANGED model
    /\ UNCHANGED runVars

\* {% for rec in ci.iter_record_definitions() %}
RenderRecord ==
    /\ genpc = "records"
    /\ Emit("record", RecordNames[idx + 1], RecordParts(RecordNames[idx + 1]),
            Len(RecordNames), "functions")
    /\ UNCHANGED model
    /\ UNCHANGED runVars

\* {% for func in ci.iter_function_definitions() %}
RenderFunction ==
    /\ genpc = "functions"
    /\ Emit("function", model[idx + 1].name, FunctionParts(model[idx + 1]), Len(model), "done")
    /\ UNCHANGED model
    /\ UNCHANGED runVars

NextGen == RenderFfiFunction \/ RenderEnum \/ RenderRecord \/ RenderFunction

SpecGen == InitGen /\ [][NextGen]_vars

(***************************************************************************)
(* The properties.                                                         *)
(***************************************************************************)
\* the wire format: scalars big endian, Optional a presence byte and then the
\* payload if present, a record its fields one after the other
RECURSIVE Wire(_, _)
RECURSIVE WireFields(_, _, _)
WireFields(name, v, k) ==
    IF k = 0 THEN <<>>
    ELSE WireFields(name, v, k - 1) \o Wire(FieldType(name, k), v[3][k])

Wire(t, v) ==
    CASE Kind(t) = "Boolean" -> <<IF v[2] THEN 1 ELSE 0>>
      [] Kind(t) \in {"U32", "Float"} -> BigEndian32(v[2])
      [] Kind(t) = "Double" -> BigEndian32(v[2]) \o BigEndian32(v[3])
      [] Kind(t) = "Record" -> WireFields(TypeName(t), v, NumFields(TypeName(t)))
      [] Kind(t) = "Optional" -> IF v = Null THEN <<0>> ELSE <<1>> \o Wire(Inner(t), v)

Position(v) == CHOOSE i \in 1..Len(EnumValues(v[2])) : EnumValues(v[2])[i] = v[3]
ArgBuffers == {j \in 1..Len(heap) : BufRef(j) # retval}
Finished == pc \in {"done", "thrown"}
Lifted == Finished /\ retval # NoResult

\* C1: a value of a type built from U32, Float, Double, Record and Optional
\* that is lowered, sent through the codec and lifted comes back as itself:
\* encoding it fails only where the native allocation did, and the decoded
\* value of the echoed buffer is the value.
C1_RoundTrip ==
    func.args[1] \in {Optional(U32), Optional(Optional(U32)), Record("Reading")} =>
        /\ (ser # <<>> /\ ser[1].arg = 1 /\ ser[1].exc # NoExc) =>
              ser[1].exc \in {"NullPointerException", "BufferOverflowException"}
        /\ (pc = "done" /\ echoed) => result = argv[1]

\* C2: an Enum argument is lowered to the 1-based position of its value, the
\* lifted echo of a lowered value is the value, and lifting ordinal 0 or 4 of
\* the enum [A, B, C] throws.
C2_EnumOrdinal ==
    /\ \A i \in 1..Len(lowered) :
          Kind(func.args[i]) = "Enum" => lowered[i] = IntV(Position(argv[i]))
    /\ (Kind(func.ret) = "Enum" /\ pc = "done" /\ echoed) => result = argv[1]
    /\ (Kind(func.ret) = "Enum" /\ Lifted /\ retval[2] \in {0, 4}) =>
          (pc = "thrown" /\ exc = "RuntimeException: invalid enum value")

\* C3: serializeForRustSize returns a number for every composite value, and
\* that number is the number of bytes serializeForRustInto writes.
C3_SizeMatchesWritten ==
    ser # <<>> =>
        /\ ser[1].size.exc = NoExc
        /\ ser[1].exc = NoExc => ser[1].written = ser[1].size.v

\* C4: a buffer that serializeForRust allocated is either returned, with no
\* call of the native free, or freed exactly once with the failure leaving the
\* function; none is left neither freed nor returned.
C4_EncodeLifecycle ==
    \A j \in ArgBuffers :
        \/ /\ heap[j].returned
           /\ heap[j].frees = 0
           /\ BufRef(j) \in Range(lowered)
        \/ /\ ~heap[j].returned
           /\ heap[j].frees = 1
           /\ pc = "thrown"
           /\ orig # NoExc
           /\ j = Len(heap)

\* a write failed in the middle of a record, after its first field was
\* written, and the buffer was freed once
C4_Witness ==
    /\ pc = "thrown"
    /\ Len(heap) >= 1
    /\ Kind(func.args[Len(heap)]) = "Record"
    /\ orig = "BufferOverflowException"
    /\ ser[1].written > 0
    /\ heap[Len(heap)].frees = 1
    /\ ~heap[Len(heap)].returned

\* C5: whatever deserializeFromRust does with a received buffer, the native
\* free was called on it exactly once when the call is over, and a buffer with
\* unread bytes behind the item is not decoded to a value.
C5_DecodeLifecycle ==
    (LiftForm(func.ret) = "deserializeFromRust" /\ Lifted) =>
        /\ heap[retval[2]].frees = 1
        /\ pc = "done" =>
              deserializeItem(func.ret, Wrap(heap[retval[2]].bytes)).bb.pos = heap[retval[2]].len

\* C6: a record's serializer writes the encodings of its fields one after the
\* other in declared order and nothing else, its deserializer reads them back
\* in that order, and Point{x: 42, y: null} is the five bytes 0 0 0 42 0.
C6_RecordLayout ==
    /\ \A i \in 1..Len(lowered) :
          Kind(func.args[i]) = "Record" =>
              /\ heap[lowered[i][2]].bytes = Wire(func.args[i], argv[i])
              /\ argv[i] = RecV("Point", <<IntV(42), Null>>) =>
                    heap[lowered[i][2]].bytes = <<0, 0, 0, 42, 0>>
    /\ (Kind(func.ret) = "Record" /\ pc = "done") =>
          /\ heap[retval[2]].bytes = Wire(func.ret, result)
          /\ echoed => result = argv[1]
          /\ (func.ret = Record("Point") /\ heap[retval[2]].bytes = <<0, 0, 0, 42, 0>>) =>
                result = RecV("Point", <<IntV(42), Null>>)

\* Point{x: 42, y: null} went through the codec as 0 0 0 42 0 and came back
C6_Witness ==
    /\ pc = "done"
    /\ echoed
    /\ argv[1] = RecV("Point", <<IntV(42), Null>>)
    /\ heap[lowered[1][2]].bytes = <<0, 0, 0, 42, 0>>
    /\ result = argv[1]

\* C7: when the native free fails while a failure is already leaving
\* serializeForRust or deserializeFromRust, the caller sees the first failure.
C7_OriginalFailureWins ==
    (orig # NoExc /\ cleanup # NoExc) => exc = orig

\* C10: when the wrapper is over, every buffer allocated for an argument was
\* passed to the foreign call or freed exactly once.
C10_NoLeakAcrossArguments ==
    Finished =>
        \A j \in ArgBuffers :
            \/ heap[j].handed /\ heap[j].frees = 0
            \/ ~heap[j].handed /\ heap[j].frees = 1

\* the first item of the interface whose rendering panics
Offender(m) ==
    IF \E i \in 1..Len(m) : Panics(FfiParts(m[i]))
    THEN CHOOSE i \in 1..Len(m) :
            /\ Panics(FfiParts(m[i]))
            /\ \A j \in 1..(i - 1) : ~Panics(FfiParts(m[j]))
    ELSE CHOOSE i \in 1..Len(m) :
            /\ Panics(FunctionParts(m[i]))
            /\ \A j \in 1..(i - 1) : ~Panics(FunctionParts(m[j]))

Without(m, i) == [j \in 1..(Len(m) - 1) |-> IF j < i THEN m[j] ELSE m[j + 1]]

\* the text of a pass over interface m in which nothing panics
Rendering(m) ==
    [i \in 1..Len(m) |-> Item("ffi", m[i].name, FfiParts(m[i]))]
        \o [e \in 1..Len(EnumNames) |->
               Item("enum", EnumNames[e],
                    [n \in 1..Len(EnumValues(EnumNames[e])) |->
                        Ok(<<n, " -> ", EnumValues(EnumNames[e])[n]>>)])]
        \o [r \in 1..Len(RecordNames) |-> Item("record", RecordNames[r], RecordParts(RecordNames[r]))]
        \o [i \in 1..Len(m) |-> Item("function", m[i].name, FunctionParts(m[i]))]

\* C8: when an item refers to an unsupported type the pass fails for that
\* item, the diagnostic names the type and the item, and the text of the other
\* items is what it is without the offending item.
C8_FailureIsolation ==
    genpc = "panicked" =>
        /\ out = Rendering(Without(model, Offender(model)))
        /\ \E k \in 1..Len(diag) : diag[k] = model[Offender(model)].name
        /\ \E k \in 1..Len(diag) : diag[k] \in {"Object", "Bytes"}

BufferKinds == {"Record", "Optional", "Bytes"}

\* C9: for a Record, Optional or Bytes type the lower expression calls the
\* buffer codec and the lift filter gives an expression that decodes the
\* received buffer through deserializeFromRust.
C9_BufferKindsCovered ==
    /\ \A k \in 1..Len(out) :
          out[k].kind = "function" =>
              LET f == CHOOSE g \in Range(model) : g.name = out[k].name
                  n == Len(f.args)
                  r == IF f.ret = NoReturn THEN 0 ELSE 1
              IN /\ \A i \in 1..n :
                        Kind(f.args[i]) \in BufferKinds =>
                            out[k].text[n + r + i] = <<ArgNames[i], ".serializeForRust()">>
                 /\ (r = 1 /\ Kind(f.ret) \in BufferKinds) =>
                        out[k].text[2 * n + 2][1] = "deserializeFromRust("
    /\ genpc = "panicked" => ~(diag[1] = "[TODO: LIFT_KT " /\ diag[2] \in BufferKinds)

====
